---- MODULE Spec2Model ----
(***************************************************************************)
(* Model of the bootstrap engine (src/src/bootstrap.rs) and of the kernel  *)
(* density estimator (src/src/univariate/kde/mod.rs).                      *)
(*                                                                         *)
(* Three specifications share the variables below:                         *)
(*   SpecBootstrap   <[T] as Bootstrap>::bootstrap (single sample) and     *)
(*                   the free function bootstrap (two samples)             *)
(*   SpecMap         Kde::map                                              *)
(*   SpecCall        Kde::call                                             *)
(* A sequence index i of the model is the 0-based index i - 1 of the code. *)
(***************************************************************************)
EXTENDS Integers, Sequences, FiniteSets

VARIABLES
    fn,            \* the function that was called
    pc,            \* position of the calling thread
    ncpus,         \* os::num_cpus() / num_cpus::get()
    nresamples,    \* the `nresamples` argument
    len1,          \* self.len() / first.len()
    len2,          \* second.len()
    granularity,   \* the `granularity` local of the parallel path
    distribution,  \* the Vec behind the Distribution: a sequence of slots
    capacity,      \* distribution.capacity()
    allocs,        \* number of buffers allocated so far
    workers,       \* one record per chunk task: its progress and its resamplers
    writes,        \* per slot, the chunk tasks that ptr::write'd it, in order
    draws1,        \* resamples drawn from self / first: pairs <<resampler, draw>>
    draws2,        \* resamples drawn from second: pairs <<resampler, draw>>
    xs,            \* Kde::map: the query points
    ys,            \* Kde::map: the result buffer
    spawned,       \* Kde::map: threads spawned so far
    oob,           \* Kde::map: an xs.get_unchecked index was out of bounds
    sample,        \* Kde: self.sample
    bandwidth,     \* Kde: self.bandwidth
    lanes,         \* Kde: width of A::Vector
    align,         \* Kde: elements of the sample before the first aligned one
    x,             \* Kde::call: the argument
    result,        \* Kde::call: the value returned
    visited        \* Kde::call: per sample index, how often the sum took it

vars == <<fn, pc, ncpus, nresamples, len1, len2, granularity, distribution,
          capacity, allocs, workers, writes, draws1, draws2, xs, ys, spawned,
          oob, sample, bandwidth, lanes, align, x, result, visited>>

bootVars == <<nresamples, len1, len2, distribution, capacity, allocs, writes,
              draws1, draws2>>
mapVars == <<xs, ys, spawned, oob>>
kdeVars == <<sample, bandwidth, lanes, align>>
callVars == <<x, result, visited>>

----------------------------------------------------------------------------
(* Bounds of the model.                                                    *)

MaxCpus == 3
MaxResamples == 10
MaxLen == 2
MaxPoints == 5
MaxSample == 4
MaxBandwidth == 2
MaxCoord == 2

----------------------------------------------------------------------------
(* Helpers shared by the parallel paths.                                   *)

Min(a, b) == IF a < b THEN a ELSE b

\* slice.chunks_mut(size).count(): the number of chunks of an n-element slice
NumChunks(n, size) == (n + size - 1) \div size

\* the length of chunk c (0-based) of an n-element slice cut in `size`d chunks
ChunkLen(n, size, c) == Min(size, n - c * size)

GranularityNoPlusOne(n, cpus) == IF n \div cpus = 0 THEN 1 ELSE n \div cpus
\* `n / ncpus + 1`
Granularity(n, cpus) == n \div cpus + 1

\* a slot of a buffer after Vec::with_capacity + set_len: not yet a value
Uninit == [rs |-> -1, d1 |-> -1, d2 |-> -1]

\* statistic(resample) / statistic(resample, other_resample): the value is a
\* function of the resamples it is given, named by the resampler that drew
\* them (the chunk task, 0 on the serial path) and their draw numbers.
Statistic(rs, d1, d2) == [rs |-> rs, d1 |-> d1, d2 |-> d2]
NoDraw == -2

\* a chunk task that has not run yet: nothing written, fresh resamplers
FreshWorker == [pos |-> 0, next1 |-> 0, next2 |-> 0]

\* Vec::push: `len == cap` makes the vector grow (amortised doubling)
PushCapacity(len, cap) == IF len < cap THEN cap ELSE IF cap = 0 THEN 4 ELSE 2 * cap

\* the capacity of a Vec of capacity cap and length len after `count` pushes
RECURSIVE CapacityAfter(_, _, _)
CapacityAfter(cap, len, count) ==
    IF count = 0 THEN cap
    ELSE CapacityAfter(PushCapacity(len, cap), len + 1, count - 1)

IdleBoot ==
    /\ nresamples = 0 /\ len1 = 0 /\ len2 = 0 /\ distribution = <<>>
    /\ capacity = 0 /\ allocs = 0 /\ writes = <<>> /\ draws1 = {} /\ draws2 = {}
IdleMap == xs = <<>> /\ ys = <<>> /\ spawned = 0 /\ oob = FALSE
IdleKde == sample = <<>> /\ bandwidth = 1 /\ lanes = 1 /\ align = 0
IdleCall == x = 0 /\ result = <<0, 1>> /\ visited = <<>>

----------------------------------------------------------------------------
(* <[T] as Bootstrap>::bootstrap, src/src/bootstrap.rs:9-35                *)

InitBootstrap ==
    /\ fn = "bootstrap"
    /\ pc = "start"
    /\ ncpus \in 1..MaxCpus
    /\ nresamples \in 0..MaxResamples
    /\ len1 \in 0..MaxLen
    /\ len2 = 0
    /\ granularity = 0
    /\ distribution = <<>> /\ capacity = 0 /\ allocs = 0
    /\ workers = <<>> /\ writes = <<>>
    /\ draws1 = {} /\ draws2 = {}
    /\ IdleMap /\ IdleKde /\ IdleCall

\* `ncpus > 1 && nresamples > self.len()`
BootstrapGoesParallel == ncpus > 1 /\ nresamples > len1

\* lines 15-19: the buffer is reserved with its length set and handed to
\* parallel::divide, which runs one task per chunk of `granularity` slots
BootstrapParallel ==
    /\ fn = "bootstrap"
    /\ pc = "start"
    /\ BootstrapGoesParallel
    /\ LET g == Granularity(nresamples, ncpus) IN
        /\ granularity' = g
        /\ distribution' = [i \in 1..nresamples |-> Uninit]
        /\ capacity' = nresamples
        /\ allocs' = allocs + 1
        /\ writes' = [i \in 1..nresamples |-> <<>>]
        /\ workers' = [c \in 1..NumChunks(nresamples, g) |-> FreshWorker]
    /\ pc' = "divide"
    /\ UNCHANGED <<fn, ncpus, nresamples, len1, len2, draws1, draws2>>
    /\ UNCHANGED <<mapVars, kdeVars, callVars>>

IterMutSkipsLast(len) == IF len > 1 THEN len - 1 ELSE len
\* `data.iter_mut()`: the number of slots of a chunk the task's loop visits
IterMut(len) == len

\* lines 20-24, one iteration of the task of chunk c: draw one resample from
\* the task's own Resamples and ptr::write the statistic into the next slot
BootstrapWorker(c) ==
    /\ fn = "bootstrap"
    /\ pc = "divide"
    /\ c \in 1..Len(workers)
    /\ LET w == workers[c]
           len == ChunkLen(nresamples, granularity, c - 1)
           slot == (c - 1) * granularity + w.pos + 1
       IN
        /\ w.pos < IterMut(len)
        /\ distribution' = [distribution EXCEPT ![slot] = Statistic(c, w.next1, NoDraw)]
        /\ writes' = [writes EXCEPT ![slot] = Append(@, c)]
        /\ draws1' = draws1 \cup {<<c, w.next1>>}
        /\ workers' = [workers EXCEPT ![c] =
                          [pos |-> w.pos + 1, next1 |-> w.next1 + 1, next2 |-> w.next2]]
    /\ UNCHANGED <<fn, pc, ncpus, nresamples, len1, len2, granularity, capacity,
                   allocs, draws2>>
    /\ UNCHANGED <<mapVars, kdeVars, callVars>>

\* a chunk task has run its closure to the end
WorkerDone(c) ==
    workers[c].pos >= IterMut(ChunkLen(Len(distribution), granularity, c - 1))

\* lines 25-27: parallel::divide returns once every task has finished, and
\* the buffer is returned as the Distribution
BootstrapJoin ==
    /\ fn = "bootstrap"
    /\ pc = "divide"
    /\ \A c \in 1..Len(workers) : WorkerDone(c)
    /\ pc' = "done"
    /\ UNCHANGED <<fn, ncpus, granularity, workers>>
    /\ UNCHANGED <<bootVars, mapVars, kdeVars, callVars>>

SerialRangeFromOne(n) == IF n > 0 THEN n - 1 ELSE 0
\* `range(0, nresamples)`: the number of items the serial iterator yields
SerialRange(n) == n

\* lines 29-33: one Resamples, `range(0, nresamples).map(..).collect()`;
\* collect reserves the iterator's exact size and pushes every item
BootstrapSerial ==
    /\ fn = "bootstrap"
    /\ pc = "start"
    /\ ~BootstrapGoesParallel
    /\ LET n == SerialRange(nresamples) IN
        /\ distribution' = [i \in 1..n |-> Statistic(0, i - 1, NoDraw)]
        /\ draws1' = {<<0, i>> : i \in 0..(n - 1)}
        /\ capacity' = CapacityAfter(n, 0, n)
    /\ allocs' = allocs + 1
    /\ pc' = "done"
    /\ UNCHANGED <<fn, ncpus, nresamples, len1, len2, granularity, workers, writes, draws2>>
    /\ UNCHANGED <<mapVars, kdeVars, callVars>>

----------------------------------------------------------------------------
(* bootstrap (two samples), src/src/bootstrap.rs:42-94                     *)

InitBootstrap2 ==
    /\ fn = "bootstrap2"
    /\ pc = "start"
    /\ ncpus \in 1..MaxCpus
    /\ nresamples \in 0..MaxResamples
    /\ len1 \in 0..MaxLen
    /\ len2 \in 0..MaxLen
    /\ granularity = 0
    /\ distribution = <<>> /\ capacity = 0 /\ allocs = 0
    /\ workers = <<>> /\ writes = <<>>
    /\ draws1 = {} /\ draws2 = {}
    /\ IdleMap /\ IdleKde /\ IdleCall

AssertRemoved(n) == TRUE
\* `assert!(nresamples > 0)`
AssertNresamples(n) == n > 0

FloorSqrt(n) == CHOOSE k \in 0..n : k * k <= n /\ (k + 1) * (k + 1) > n
\* `(nresamples as f64).sqrt().ceil() as uint`: sqrt is correctly rounded and
\* exact on perfect squares, so this is the least k with k * k >= n
CeilSqrt(n) == CHOOSE k \in 0..n : k * k >= n /\ \A j \in 0..(k - 1) : j * j < n

\* `ncpus > 1 && nresamples > first.len() + second.len()`, nresamples = k * k
Bootstrap2GoesParallel(k) == ncpus > 1 /\ k * k > len1 + len2

\* line 48: the assertion fails and the call unwinds
Bootstrap2Panic ==
    /\ fn = "bootstrap2"
    /\ pc = "start"
    /\ ~AssertNresamples(nresamples)
    /\ pc' = "panicked"
    /\ UNCHANGED <<fn, ncpus, granularity, workers>>
    /\ UNCHANGED <<bootVars, mapVars, kdeVars, callVars>>

\* lines 57-61: the k * k buffer is reserved with its length set and handed
\* to parallel::divide with granularity k / ncpus + 1
Bootstrap2Parallel ==
    /\ fn = "bootstrap2"
    /\ pc = "start"
    /\ AssertNresamples(nresamples)
    /\ LET k == CeilSqrt(nresamples)
           g == Granularity(k, ncpus)
       IN
        /\ Bootstrap2GoesParallel(k)
        /\ granularity' = g
        /\ distribution' = [i \in 1..(k * k) |-> Uninit]
        /\ capacity' = k * k
        /\ allocs' = allocs + 1
        /\ writes' = [i \in 1..(k * k) |-> <<>>]
        /\ workers' = [c \in 1..NumChunks(k * k, g) |-> FreshWorker]
    /\ pc' = "divide"
    /\ UNCHANGED <<fn, ncpus, nresamples, len1, len2, draws1, draws2>>
    /\ UNCHANGED <<mapVars, kdeVars, callVars>>

\* lines 62-73, one ptr::write of the task of chunk c. The task cuts its data
\* in sub-chunks of `granularity` slots; entering a sub-chunk draws the next
\* resample of `first`, every slot draws the next resample of `second`. The
\* data is one chunk of parallel::divide, at most `granularity` slots long, so
\* position pos of the data lies in sub-chunk pos / granularity.
Bootstrap2Worker(c) ==
    /\ fn = "bootstrap2"
    /\ pc = "divide"
    /\ c \in 1..Len(workers)
    /\ LET w == workers[c]
           len == ChunkLen(Len(distribution), granularity, c - 1)
           slot == (c - 1) * granularity + w.pos + 1
           first == w.pos \div granularity
       IN
        /\ w.pos < IterMut(len)
        /\ distribution' = [distribution EXCEPT ![slot] = Statistic(c, first, w.next2)]
        /\ writes' = [writes EXCEPT ![slot] = Append(@, c)]
        /\ draws1' = draws1 \cup {<<c, first>>}
        /\ draws2' = draws2 \cup {<<c, w.next2>>}
        /\ workers' = [workers EXCEPT ![c] =
                          [pos |-> w.pos + 1, next1 |-> first + 1, next2 |-> w.next2 + 1]]
    /\ UNCHANGED <<fn, pc, ncpus, nresamples, len1, len2, granularity, capacity, allocs>>
    /\ UNCHANGED <<mapVars, kdeVars, callVars>>

\* lines 74-76: parallel::divide returns once every task has finished
Bootstrap2Join ==
    /\ fn = "bootstrap2"
    /\ pc = "divide"
    /\ \A c \in 1..Len(workers) : WorkerDone(c)
    /\ pc' = "done"
    /\ UNCHANGED <<fn, ncpus, granularity, workers>>
    /\ UNCHANGED <<bootVars, mapVars, kdeVars, callVars>>

\* lines 82-90, the nested loops: slot r * k + c holds the statistic of draw r
\* of `resamples` and of draw r * k + c of `other_resamples`, which is never
\* restarted between rows
SerialGrid(k) == [i \in 1..(k * k) |-> Statistic(0, (i - 1) \div k, i - 1)]

\* lines 78-92: k draws of `first`; for each of them k further draws of
\* `second`; k * k pushes, row-major
Bootstrap2Serial ==
    /\ fn = "bootstrap2"
    /\ pc = "start"
    /\ AssertNresamples(nresamples)
    /\ LET k == CeilSqrt(nresamples) IN
        /\ ~Bootstrap2GoesParallel(k)
        /\ distribution' = SerialGrid(k)
        /\ draws1' = {<<0, r>> : r \in 0..(k - 1)}
        /\ draws2' = {<<0, j>> : j \in 0..(k * k - 1)}
        /\ capacity' = CapacityAfter(k * k, 0, k * k)
    /\ allocs' = allocs + 1
    /\ pc' = "done"
    /\ UNCHANGED <<fn, ncpus, nresamples, len1, len2, granularity, workers, writes>>
    /\ UNCHANGED <<mapVars, kdeVars, callVars>>

NextBootstrap ==
    \/ BootstrapParallel
    \/ \E c \in 1..Len(workers) : BootstrapWorker(c)
    \/ BootstrapJoin
    \/ BootstrapSerial
    \/ Bootstrap2Panic
    \/ Bootstrap2Parallel
    \/ \E c \in 1..Len(workers) : Bootstrap2Worker(c)
    \/ Bootstrap2Join
    \/ Bootstrap2Serial

SpecBootstrap == (InitBootstrap \/ InitBootstrap2) /\ [][NextBootstrap]_vars

----------------------------------------------------------------------------
(* Numbers of the estimator. A value of the float type A is modelled as an *)
(* exact fraction <<numerator, denominator>> in lowest terms, denominator  *)
(* > 0; <<1, 0>> and <<-1, 0>> are the infinities and <<0, 0>> is NaN.      *)

Abs(a) == IF a < 0 THEN -a ELSE a
Sign(a) == IF a < 0 THEN -1 ELSE IF a > 0 THEN 1 ELSE 0

RECURSIVE Gcd(_, _)
Gcd(a, b) == IF b = 0 THEN a ELSE Gcd(b, a % b)

Norm(r) ==
    IF r[2] = 0 THEN <<Sign(r[1]), 0>>
    ELSE LET s == IF r[2] < 0 THEN -1 ELSE 1
             g == Gcd(Abs(r[1]), Abs(r[2]))
         IN <<(s * r[1]) \div g, (s * r[2]) \div g>>

\* A::from(k) for an integer k
FromInt(k) == <<k, 1>>
NaN == <<0, 0>>

FloatAdd(p, q) ==
    IF p[2] = 0 /\ q[2] = 0 THEN (IF p = q THEN p ELSE NaN)
    ELSE Norm(<<p[1] * q[2] + q[1] * p[2], p[2] * q[2]>>)
FloatSub(p, q) == FloatAdd(p, <<-q[1], q[2]>>)
FloatMul(p, q) == Norm(<<p[1] * q[1], p[2] * q[2]>>)
FloatDiv(p, q) == FloatMul(p, Norm(<<q[2], q[1]>>))

\* the kernel: a symmetric, everywhere positive bump, 1 / (1 + u * u)
Kernel(u) ==
    IF u[2] = 0 THEN (IF u[1] = 0 THEN NaN ELSE <<0, 1>>)
    ELSE Norm(<<u[2] * u[2], u[1] * u[1] + u[2] * u[2]>>)

----------------------------------------------------------------------------
(* Kde::call, src/src/univariate/kde/mod.rs:78-96                          *)

\* the widths of A::Vector: two f64 lanes or four f32 lanes
LaneWidths == {2, 4}

\* A::Vector::cast(slice): the elements before the first aligned one (head),
\* the aligned full vectors (body) and the rest (tail), as indices of slice
Cast(n, width, lead) ==
    LET h == Min(lead, n)
        b == (n - h) \div width
    IN [head |-> [i \in 1..h |-> i],
        body |-> [j \in 1..b |-> [l \in 1..width |-> h + (j - 1) * width + l]],
        tail |-> [i \in 1..(n - h - b * width) |-> h + b * width + i]]

\* `self.kernel((x - x_i) / h)` for the sample point of index i
Term(q, i) ==
    Kernel(FloatDiv(FloatSub(FromInt(q), FromInt(sample[i])), FromInt(bandwidth)))

\* the fold `acc + term` over a sequence of sample indices, from `start`
RECURSIVE FoldTerms(_, _, _)
FoldTerms(q, seq, start) ==
    IF seq = <<>> THEN start
    ELSE FoldTerms(q, Tail(seq), FloatAdd(start, Term(q, Head(seq))))

\* lines 87-89: lane l of the vector accumulator after the fold over body
LaneSum(q, body, l) == FoldTerms(q, [j \in 1..Len(body) |-> body[j][l]], FromInt(0))

\* `.sum()`: the horizontal sum of the accumulator's lanes
RECURSIVE HorizontalSum(_, _, _)
HorizontalSum(q, body, l) ==
    IF l = 0 THEN FromInt(0)
    ELSE FloatAdd(HorizontalSum(q, body, l - 1), LaneSum(q, body, l))

ChainTailOnly(head, tail) == tail
\* `head.iter().chain(tail.iter())`
Chain(head, tail) == head \o tail

\* `sum / h / n`
Scale(sum) == FloatDiv(FloatDiv(sum, FromInt(bandwidth)), FromInt(Len(sample)))

\* lines 79-95: the density at q
Call(q) ==
    LET c == Cast(Len(sample), lanes, align)
        sum == HorizontalSum(q, c.body, lanes)
    IN Scale(FoldTerms(q, Chain(c.head, c.tail), sum))

\* the sample indices the two folds of Call take, in the order taken
RECURSIVE Flatten(_)
Flatten(body) == IF body = <<>> THEN <<>> ELSE Head(body) \o Flatten(Tail(body))

Taken ==
    LET c == Cast(Len(sample), lanes, align)
    IN Flatten(c.body) \o Chain(c.head, c.tail)

InitCall ==
    /\ fn = "call"
    /\ pc = "start"
    /\ \E n \in 0..MaxSample : sample \in [1..n -> 0..MaxCoord]
    /\ bandwidth \in 1..MaxBandwidth
    /\ lanes \in LaneWidths
    /\ align \in 0..(lanes - 1)
    /\ x \in 0..MaxCoord
    /\ result = NaN
    /\ visited = [i \in 1..Len(sample) |-> 0]
    /\ ncpus = 1 /\ granularity = 0 /\ workers = <<>>
    /\ IdleBoot /\ IdleMap

KdeCall ==
    /\ fn = "call"
    /\ pc = "start"
    /\ result' = Call(x)
    /\ visited' = [i \in 1..Len(sample) |->
                      Cardinality({j \in 1..Len(Taken) : Taken[j] = i})]
    /\ pc' = "done"
    /\ UNCHANGED <<fn, ncpus, granularity, workers, x>>
    /\ UNCHANGED <<bootVars, mapVars, kdeVars>>

NextCall == KdeCall

SpecCall == InitCall /\ [][NextCall]_vars

----------------------------------------------------------------------------
(* Kde::map, src/src/univariate/kde/mod.rs:42-71                           *)

\* a slot of `ys` after Vec::with_capacity + set_len: not yet a value
UninitY == <<0, -1>>

\* the query points the model draws `xs` from
QueryPoints == {0, MaxCoord}

InitMap ==
    /\ fn = "map"
    /\ pc = "start"
    /\ ncpus \in 1..MaxCpus
    /\ \E n \in 0..MaxPoints : xs \in [1..n -> QueryPoints]
    /\ ys = <<>> /\ spawned = 0 /\ oob = FALSE
    /\ sample = <<0, 0, 1>> /\ bandwidth = 1 /\ lanes = 2
    /\ align \in 0..1
    /\ granularity = 0 /\ workers = <<>>
    /\ IdleBoot /\ IdleCall

\* `ncpus > 1 && n > ncpus`
MapGoesParallel == ncpus > 1 /\ Len(xs) > ncpus

\* lines 48-52: `ys` is reserved with its length set
MapParallel ==
    /\ fn = "map"
    /\ pc = "start"
    /\ MapGoesParallel
    /\ granularity' = Granularity(Len(xs), ncpus)
    /\ ys' = [i \in 1..Len(xs) |-> UninitY]
    /\ workers' = <<>>
    /\ spawned' = 0
    /\ pc' = "collect"
    /\ UNCHANGED <<fn, ncpus, xs, oob>>
    /\ UNCHANGED <<bootVars, kdeVars, callVars>>

\* lines 55-58: collect pulls the next chunk of `ys` from chunks_mut and
\* spawns its thread, which starts running at once
MapSpawn ==
    /\ fn = "map"
    /\ pc = "collect"
    /\ spawned < NumChunks(Len(ys), granularity)
    /\ spawned' = spawned + 1
    /\ workers' = Append(workers, FreshWorker)
    /\ UNCHANGED <<fn, pc, ncpus, granularity, xs, ys, oob>>
    /\ UNCHANGED <<bootVars, kdeVars, callVars>>

OffsetOneBased(i, g) == (i + 1) * g
\* `let offset = i * granularity`
Offset(i, g) == i * g

\* `*xs.get_unchecked(k)`, k 0-based: past the end any value may be read
GetUnchecked(k) == IF k < Len(xs) THEN {xs[k + 1]} ELSE QueryPoints

\* lines 59-61, one iteration of the thread of chunk c: element i of its
\* chunk of `ys` is written with the density at xs[offset + i]
MapWorker(c) ==
    /\ fn = "map"
    /\ pc = "collect"
    /\ c \in 1..Len(workers)
    /\ LET w == workers[c]
           len == ChunkLen(Len(ys), granularity, c - 1)
           slot == (c - 1) * granularity + w.pos + 1
           k == Offset(c - 1, granularity) + w.pos
       IN
        /\ w.pos < len
        /\ \E q \in GetUnchecked(k) : ys' = [ys EXCEPT ![slot] = Call(q)]
        /\ oob' = (oob \/ k >= Len(xs))
        /\ workers' = [workers EXCEPT ![c] =
                          [pos |-> w.pos + 1, next1 |-> 0, next2 |-> 0]]
    /\ UNCHANGED <<fn, pc, ncpus, granularity, xs, spawned>>
    /\ UNCHANGED <<bootVars, kdeVars, callVars>>

\* the thread of chunk c has run to its end
ThreadDone(c) == workers[c].pos >= ChunkLen(Len(ys), granularity, c - 1)

JoinNoWait == TRUE
\* lines 63-66: the Vec of JoinGuards is a temporary: it is dropped at the end
\* of the statement and every guard joins its thread as it drops
JoinGuardsDropped == \A c \in 1..Len(workers) : ThreadDone(c)

MapJoin ==
    /\ fn = "map"
    /\ pc = "collect"
    /\ spawned = NumChunks(Len(ys), granularity)
    /\ JoinGuardsDropped
    /\ pc' = "done"
    /\ UNCHANGED <<fn, ncpus, granularity, workers>>
    /\ UNCHANGED <<bootVars, mapVars, kdeVars, callVars>>

\* line 69: `xs.iter().map(|&x| self(x)).collect()`
MapSerial ==
    /\ fn = "map"
    /\ pc = "start"
    /\ ~MapGoesParallel
    /\ ys' = [i \in 1..Len(xs) |-> Call(xs[i])]
    /\ pc' = "done"
    /\ UNCHANGED <<fn, ncpus, granularity, workers, xs, spawned, oob>>
    /\ UNCHANGED <<bootVars, kdeVars, callVars>>

NextMap ==
    \/ MapParallel
    \/ MapSpawn
    \/ \E c \in 1..Len(workers) : MapWorker(c)
    \/ MapJoin
    \/ MapSerial

SpecMap == InitMap /\ [][NextMap]_vars

----------------------------------------------------------------------------
(* Properties of the bootstrap functions, checked under SpecBootstrap.     *)

\* the parallel path was taken: only it sets `granularity`
Parallel == granularity > 0

\* C1: for nresamples > 0 the single-sample bootstrap returns a Distribution
\* of exactly nresamples values whose capacity equals its length, on the
\* parallel and on the serial path.
C1_ExactSizing ==
    (fn = "bootstrap" /\ pc = "done" /\ nresamples > 0) =>
        /\ Len(distribution) = nresamples
        /\ capacity = Len(distribution)

C1_Witness ==
    /\ fn = "bootstrap" /\ pc = "done" /\ nresamples > 1
    /\ Parallel /\ Len(workers) > 1

\* C2: for nresamples > 0 the two-sample bootstrap returns k * k values, k
\* the least number with k * k >= nresamples, and capacity equal to length,
\* on the parallel and on the serial path.
C2_SquareSizing ==
    (fn = "bootstrap2" /\ pc = "done" /\ nresamples > 0) =>
        /\ \E k \in 1..nresamples :
              /\ k * k >= nresamples
              /\ (k - 1) * (k - 1) < nresamples
              /\ Len(distribution) = k * k
        /\ capacity = Len(distribution)

C2_Witness ==
    /\ fn = "bootstrap2" /\ pc = "done" /\ nresamples = 10
    /\ Len(distribution) = 16 /\ capacity = 16 /\ Parallel

\* the slots (1-based) that parallel::divide hands to the task of chunk c
ChunkSlots(c) ==
    {s \in 1..Len(distribution) :
        (c - 1) * granularity < s /\ s <= c * granularity}

\* C4: on the parallel path of either bootstrap, under every interleaving of
\* the chunk tasks, no slot is ever written twice, a slot is written only by
\* the task of the chunk it lies in, a slot holds a value exactly when it was
\* written, and when the call has returned every slot was written exactly
\* once, so the Distribution the caller reads holds no uninitialized slot.
C4_WrittenOnce ==
    Parallel =>
        /\ Len(writes) = Len(distribution)
        /\ \A s \in 1..Len(distribution) :
              /\ Len(writes[s]) <= 1
              /\ \A j \in 1..Len(writes[s]) : s \in ChunkSlots(writes[s][j])
              /\ (distribution[s] = Uninit) <=> (writes[s] = <<>>)
              /\ pc = "done" => Len(writes[s]) = 1

C4_Witness ==
    /\ fn = "bootstrap2" /\ pc = "done" /\ Parallel
    /\ Len(workers) > 2 /\ Len(distribution) > 4

\* the k of the k x k grid the returned buffer is meant to be
GridSide == CHOOSE k \in 0..Len(distribution) : k * k = Len(distribution)

\* the slots whose value was computed from draw d of `first`
SlotsOfFirst(d) ==
    {s \in 1..Len(distribution) :
        <<distribution[s].rs, distribution[s].d1>> = d}

\* the draws of `second` that draw d of `first` was paired with
PairedWith(d) ==
    {<<distribution[s].rs, distribution[s].d2>> : s \in SlotsOfFirst(d)}

\* row r (0-based) of the k x k grid, as slots of the row-major buffer
GridRow(r) == {s \in 1..Len(distribution) : (s - 1) \div GridSide = r}

\* C5: the two-sample bootstrap builds the k x k grid on either path:
\* exactly k resamples are drawn from `first`, each is used for exactly the k
\* slots of one whole row and is paired there with k draws of `second`, and
\* on the parallel path every chunk spans whole rows.
C5_FullGrid ==
    (fn = "bootstrap2" /\ pc = "done") =>
        /\ Cardinality(draws1) = GridSide
        /\ \A d \in draws1 :
              /\ \E r \in 0..(GridSide - 1) : SlotsOfFirst(d) = GridRow(r)
              /\ Cardinality(PairedWith(d)) = GridSide
        /\ Parallel =>
              \A c \in 1..Len(workers) :
                  Cardinality(ChunkSlots(c)) % GridSide = 0

\* C6: with a deterministic Resampler (draw number j of every fresh
\* resampler over one sample is the same resample) the parallel path puts in
\* every slot the value the serial path puts there.
C6_ParallelEqualsSerial ==
    (fn = "bootstrap2" /\ pc = "done" /\ Parallel) =>
        \A s \in 1..Len(distribution) :
            /\ distribution[s].d1 = SerialGrid(GridSide)[s].d1
            /\ distribution[s].d2 = SerialGrid(GridSide)[s].d2

\* C7: the two-sample bootstrap called with nresamples = 0 never gets past
\* its assertion: its one possible step is the panic, nothing is drawn,
\* nothing is allocated, no statistic is stored and no Distribution is
\* returned.
C7_ZeroFailsFast ==
    (fn = "bootstrap2" /\ nresamples = 0) =>
        /\ pc \in {"start", "panicked"}
        /\ pc = "start" =>
              /\ ENABLED Bootstrap2Panic
              /\ ~ENABLED (Bootstrap2Parallel \/ Bootstrap2Serial)
        /\ draws1 = {} /\ draws2 = {}
        /\ allocs = 0 /\ capacity = 0
        /\ distribution = <<>> /\ workers = <<>>

C7_Witness ==
    /\ fn = "bootstrap2" /\ nresamples = 0 /\ pc = "panicked"
    /\ ncpus > 1 /\ len1 = 0 /\ len2 = 0

\* C9 as stated: on the parallel path of the single-sample bootstrap the
\* partition has exactly ncpus chunks, none empty, only the last one smaller
\* than granularity.
C9_EveryWorkerGetsAChunk ==
    (fn = "bootstrap" /\ pc = "divide") =>
        /\ Len(workers) = ncpus
        /\ \A c \in 1..Len(workers) :
              /\ Cardinality(ChunkSlots(c)) >= 1
              /\ c < Len(workers) => Cardinality(ChunkSlots(c)) = granularity

\* C9 amended: on the parallel path of the single-sample bootstrap the
\* partition has at least one and at most ncpus chunks, none empty, only the
\* last one smaller than granularity, and together they are the whole buffer.
C9_AtMostNcpusChunks ==
    (fn = "bootstrap" /\ pc = "divide") =>
        /\ Len(workers) >= 1
        /\ Len(workers) <= ncpus
        /\ \A c \in 1..Len(workers) :
              /\ Cardinality(ChunkSlots(c)) >= 1
              /\ c < Len(workers) => Cardinality(ChunkSlots(c)) = granularity
        /\ UNION {ChunkSlots(c) : c \in 1..Len(workers)} = 1..nresamples

C9_Witness ==
    /\ fn = "bootstrap" /\ pc = "divide"
    /\ ncpus = 3 /\ Len(workers) = 2

----------------------------------------------------------------------------
(* Properties of Kde::call, checked under SpecCall.                        *)

\* the sum of kernel((q - x_i) / h) over the sample points i = 1..n, one by one
RECURSIVE NaiveSum(_, _)
NaiveSum(q, n) ==
    IF n = 0 THEN FromInt(0)
    ELSE FloatAdd(NaiveSum(q, n - 1),
                  Kernel(FloatDiv(FromInt(q - sample[n]), FromInt(bandwidth))))

\* (1 / (n * h)) * sum
Naive(q) ==
    FloatMul(FloatDiv(FromInt(1), FromInt(Len(sample) * bandwidth)),
             NaiveSum(q, Len(sample)))

\* C8: the value Kde::call returns is the naive scalar sum over all n sample
\* points scaled once by 1 / (n * h), and head, body lanes and tail take every
\* sample point exactly once, for every sample length, alignment and vector
\* width.
C8_CallIsNaiveSum ==
    (fn = "call" /\ pc = "done") =>
        /\ result = Naive(x)
        /\ \A i \in 1..Len(sample) : visited[i] = 1

C8_Witness ==
    /\ fn = "call" /\ pc = "done"
    /\ Len(sample) = 4 /\ lanes = 2 /\ align = 1
    /\ sample[1] # sample[4]
    /\ result # NaN /\ result[1] > 0

----------------------------------------------------------------------------
(* Properties of Kde::map, checked under SpecMap.                          *)

\* C3: when Kde::map has returned, ys is as long as xs and ys[i] is the
\* density at xs[i] for every i, on the serial path and, under every
\* interleaving of the threads, on the parallel path, where there is one
\* thread per chunk of granularity = n / ncpus + 1 slots and every thread has
\* finished its chunk before map returns.
C3_MapIsPointwise ==
    (fn = "map" /\ pc = "done") =>
        /\ Len(ys) = Len(xs)
        /\ \A i \in 1..Len(xs) : ys[i] = Call(xs[i])
        /\ Parallel =>
              /\ granularity = Len(xs) \div ncpus + 1
              /\ Len(workers) = NumChunks(Len(xs), granularity)
              /\ \A c \in 1..Len(workers) : ThreadDone(c)

C3_Witness ==
    /\ fn = "map" /\ pc = "done" /\ Parallel
    /\ Len(workers) = 3 /\ Len(xs) = 5
    /\ xs[1] # xs[3] /\ xs[3] # xs[5]
    /\ ys[1] # ys[3]

\* C10: on the parallel path of Kde::map every index a thread reads from xs
\* without a bounds check is smaller than xs.len(), and never more than ncpus
\* threads are spawned.
C10_ReadsInBoundsThreadsBounded ==
    (fn = "map" /\ Parallel) =>
        /\ ~oob
        /\ \A c \in 1..Len(workers) : \A i \in 0..(workers[c].pos - 1) :
              Offset(c - 1, granularity) + i < Len(xs)
        /\ spawned <= ncpus
        /\ Len(workers) <= ncpus

C10_Witness ==
    /\ fn = "map" /\ pc = "done" /\ Parallel
    /\ spawned = ncpus /\ ncpus = 3
    /\ workers[3].pos > 0

====
